---- MODULE Spec2Model ----
(***************************************************************************)
(* Model of the SIB-Group-Project data scripts.                            *)
(*                                                                         *)
(*   Spec       scripts/exploratory_analysis.py : main and its helpers     *)
(*   SpecFasta  scripts/check_data.py           : load_fasta_accessions    *)
(*   SpecClean  scripts/clean_data.py           : clean_tsv_to_csv         *)
(*                                                                         *)
(* A table cell read by pandas is modelled as a tuple: the empty tuple is  *)
(* an empty cell (NaN after read_csv), <<y, m, d>> is the text of a date   *)
(* "y-m-d" and <<v>> is a number.  Geographic locations are strings, the   *)
(* empty string being an empty cell.                                       *)
(***************************************************************************)
EXTENDS Integers, Sequences, FiniteSets, TLC

VARIABLES
    \* ---- exploratory_analysis.py ----
    pc,            \* position of the process in main / load_ncbi_metadata
    fs,            \* set of input paths that exist on disk
    idx,           \* index into VARIANTS of the loop of load_ncbi_metadata
    all_data,      \* load_ncbi_metadata: dict var_key -> table
    summary_list,  \* load_ncbi_metadata: list of summary dicts
    ret_meta,      \* main: (all_data, summary_df) as returned by the loader
    clade_pheno,   \* main: value returned by load_phenotypes
    console,       \* lines printed so far
    outputs,       \* files written under results/figures, in write order
    success,       \* value returned by main, None until it returns
    exit_code,     \* process exit status, NoExit while running
    reads,         \* paths handed to pd.read_csv so far, in order
    \* ---- check_data.py : load_fasta_accessions ----
    fpc, lines, cap, pos, accs,
    \* ---- clean_data.py : clean_tsv_to_csv ----
    cpc, tsv, csv,
    \* ---- check_data.py : the reconciliation loop ----
    rpc,           \* position of the script: "loop", "raised", "done", "idle"
    rdfs,          \* the tables delta, omicron read from the clean files
    rfasta,        \* delta_accs_fasta, omicron_accs_fasta
    ridx,          \* index of the loop over the two variants
    rout           \* lines printed by the loop

eaVars    == <<pc, fs, idx, all_data, summary_list, ret_meta, clade_pheno,
               console, outputs, success, exit_code, reads>>
fastaVars == <<fpc, lines, cap, pos, accs>>
cleanVars == <<cpc, tsv, csv>>
reconVars == <<rpc, rdfs, rfasta, ridx, rout>>
vars      == <<eaVars, fastaVars, cleanVars, reconVars>>

(***************************************************************************)
(* Bounds of the model                                                     *)
(***************************************************************************)
\* rows of one metadata table
MaxRows == 2
\* rows of the phenotype table
MaxPhenoRows == 1

(***************************************************************************)
(* Python values                                                           *)
(***************************************************************************)
None    == [tag |-> "None"]
Some(v) == [tag |-> "Some", val |-> v]
NaN     == <<>>
NaT     == <<>>
NoExit  == -1

RECURSIVE SumSeq(_)
SumSeq(s) == IF s = <<>> THEN 0 ELSE Head(s) + SumSeq(Tail(s))

\* f"{n:,}": the decimal groups of three digits, most significant first
RECURSIVE FmtThousands(_)
FmtThousands(n) ==
    IF n < 1000 THEN <<n>> ELSE Append(FmtThousands(n \div 1000), n % 1000)

SeqsUpTo(S, n) == UNION {[1..k -> S] : k \in 0..n}

(***************************************************************************)
(* exploratory_analysis.py : configuration                                 *)
(***************************************************************************)
VARIANTS ==
    << [key |-> "b1",          name |-> "B.1"],
       [key |-> "beta",        name |-> "Beta"],
       [key |-> "delta",       name |-> "Delta"],
       [key |-> "omicron_ba1", name |-> "Omicron BA.1"],
       [key |-> "ba2",         name |-> "BA.2"],
       [key |-> "xbb15",       name |-> "XBB.1.5"] >>

VariantKeys == {VARIANTS[k].key : k \in 1..Len(VARIANTS)}

\* DATA_DIR / var_key / f"{var_key}_meta.tsv"
MetaFile(var_key) == <<"data", var_key, var_key, "_meta.tsv">>

\* PHENO_DIR / "clade_phenotypes.csv"
PhenoFile == <<"external", "SARS2-spike-predictor-phenos", "results",
               "clade_phenotypes.csv">>

RequiredFiles == {MetaFile(k) : k \in VariantKeys} \cup {PhenoFile}

DateCol   == "Isolate Collection date"
GeoCol    == "Geographic Location"
TargetCol == "clade growth"

(***************************************************************************)
(* Contents the input files are drawn from                                 *)
(***************************************************************************)
\* rows of a metadata export: an empty date, a text that is no date
\* ("2021-13-01"), and a date
SampleRows ==
    { [date |-> NaN,             loc |-> ""],
      [date |-> <<2021, 13, 1>>, loc |-> ""],
      [date |-> <<2021, 5, 1>>,  loc |-> "USA"] }

MetaColSets == { {"Accession", DateCol, GeoCol},
                 {"Accession", GeoCol},
                 {"Accession", DateCol} }

\* a table that lacks a column is drawn with at most one row: the load fails
\* on the column whatever the rows are
MetaTables(n) ==
    { t \in [cols : MetaColSets, rows : SeqsUpTo(SampleRows, n)] :
        t.cols # {"Accession", DateCol, GeoCol} => Len(t.rows) <= 1 }

PhenoCells == { NaN, <<3>> }

PhenoColSets == { {"clade", TargetCol}, {"clade"} }

PhenoTables(n) ==
    { t \in [cols : PhenoColSets, rows : SeqsUpTo(PhenoCells, n)] :
        t.cols # {"clade", TargetCol} => t.rows = <<>> }

(***************************************************************************)
(* pandas helpers                                                          *)
(***************************************************************************)
IsLeap(y) == (y % 4 = 0 /\ y % 100 # 0) \/ y % 400 = 0

DaysInMonth(y, m) ==
    IF m = 2 THEN (IF IsLeap(y) THEN 29 ELSE 28)
    ELSE IF m \in {4, 6, 9, 11} THEN 30 ELSE 31

\* pd.to_datetime(cell, errors='coerce'): text that is no date becomes NaT
ToDatetime(cell) ==
    IF /\ Len(cell) = 3
       /\ cell[2] \in 1..12
       /\ cell[3] \in 1..DaysInMonth(cell[1], cell[2])
    THEN cell
    ELSE NaT

DateLE(a, b) ==
    \/ a[1] < b[1]
    \/ a[1] = b[1] /\ a[2] < b[2]
    \/ a[1] = b[1] /\ a[2] = b[2] /\ a[3] <= b[3]

NotNaT(col) == {col[k] : k \in 1..Len(col)} \ {NaT}

\* Series.min() / Series.max(): skip NaT, NaT when nothing is left
DateMin(col) ==
    IF NotNaT(col) = {} THEN NaT
    ELSE CHOOSE d \in NotNaT(col) : \A e \in NotNaT(col) : DateLE(d, e)

DateMax(col) ==
    IF NotNaT(col) = {} THEN NaT
    ELSE CHOOSE d \in NotNaT(col) : \A e \in NotNaT(col) : DateLE(e, d)

\* Timestamp.strftime('%Y-%m'); NaT.strftime raises ValueError
CanStrftime(d) == d # NaT
StrftimeYm(d)  == <<d[1], d[2]>>

\* Series.nunique(): distinct non-missing values
NUnique(rows) == Cardinality({rows[k].loc : k \in 1..Len(rows)} \ {""})

\* rows of the tables loaded so far
RECURSIVE RowsOf(_, _)
RowsOf(data, keys) ==
    IF keys = {} THEN 0
    ELSE LET k == CHOOSE x \in keys : TRUE
         IN  Len(data[k].rows) + RowsOf(data, keys \ {k})

\* summary_df['Sequences'].sum()
SequencesSum(df) == SumSeq([k \in 1..Len(df) |-> df[k].Sequences])

(***************************************************************************)
(* exploratory_analysis.py : load_ncbi_metadata                            *)
(***************************************************************************)
\* meta['Isolate Collection date'] = pd.to_datetime(..., errors='coerce')
ParseDates(meta) ==
    [meta EXCEPT !.rows =
        [k \in 1..Len(meta.rows) |->
            [meta.rows[k] EXCEPT !.date = ToDatetime(meta.rows[k].date)]]]

DatesOf(meta) == [k \in 1..Len(meta.rows) |-> meta.rows[k].date]

\* variation of NSeqs: only the rows with a date are counted
NSeqs_DatedRows(meta) ==
    Cardinality({k \in 1..Len(meta.rows) : meta.rows[k].date # NaT})

\* n_seqs = len(meta)
NSeqs(meta) == Len(meta.rows)

\* the dict appended to summary_list for one variant
SummaryRow(var_name, meta) ==
    [ Variant   |-> var_name,
      Sequences |-> NSeqs(meta),
      Period    |-> << StrftimeYm(DateMin(DatesOf(meta))),
                       StrftimeYm(DateMax(DatesOf(meta))) >>,
      Countries |-> NUnique(meta.rows) ]

\* summary_list.append(row)
AppendSummary(list, row) == Append(list, row)

\* the exception one iteration of the loop raises on a table, "" when none.
\* Statements run in source order: the date column is read first, then the
\* minimum and maximum are formatted, then the location column is read.
LoadError(meta) ==
    IF DateCol \notin meta.cols THEN "KeyError"
    ELSE IF ~CanStrftime(DateMin(DatesOf(ParseDates(meta)))) THEN "ValueError"
    ELSE IF GeoCol \notin meta.cols THEN "KeyError"
    ELSE ""

\* an uncaught exception unwinds main: the locals are gone, the interpreter
\* prints the traceback and exits
Raise(error) ==
    /\ pc' = "raised"
    /\ console' = Append(console, [msg |-> "Traceback", error |-> error])
    /\ all_data' = <<>>
    /\ summary_list' = <<>>
    /\ idx' = 0

MainStart ==
    /\ pc = "main"
    /\ pc' = "load_ncbi_metadata"
    /\ idx' = 1
    /\ all_data' = <<>>
    /\ summary_list' = <<>>
    /\ console' = console \o << [msg |-> "PIPELINE"],
                                [msg |-> "LOADING NCBI GENOMIC SEQUENCES"] >>
    /\ UNCHANGED <<fs, ret_meta, clade_pheno, outputs, success, exit_code,
                   reads, fastaVars, cleanVars, reconVars>>

\* variation of LoadVariantNotFound: the missing variant is reported and
\* skipped, the loop goes on
LoadVariantNotFound_Skip ==
    /\ pc = "load_ncbi_metadata"
    /\ idx \in 1..Len(VARIANTS)
    /\ MetaFile(VARIANTS[idx].key) \notin fs
    /\ reads' = Append(reads, MetaFile(VARIANTS[idx].key))
    /\ console' = Append(console, [msg     |-> "FILE NOT FOUND",
                                   variant |-> VARIANTS[idx].name,
                                   path    |-> MetaFile(VARIANTS[idx].key)])
    /\ idx' = idx + 1
    /\ UNCHANGED <<pc, fs, all_data, summary_list, ret_meta, clade_pheno,
                   outputs, success, exit_code, fastaVars, cleanVars, reconVars>>

\* one iteration of "for var_key, var_name in VARIANTS.items()" whose file
\* is absent: except FileNotFoundError
LoadVariantNotFound ==
    /\ pc = "load_ncbi_metadata"
    /\ idx \in 1..Len(VARIANTS)
    /\ MetaFile(VARIANTS[idx].key) \notin fs
    /\ reads' = Append(reads, MetaFile(VARIANTS[idx].key))
    /\ console' = Append(console, [msg     |-> "FILE NOT FOUND",
                                   variant |-> VARIANTS[idx].name,
                                   path    |-> MetaFile(VARIANTS[idx].key)])
    /\ ret_meta' = <<None, None>>
    /\ all_data' = <<>>
    /\ summary_list' = <<>>
    /\ idx' = 0
    /\ pc' = "main_step1"
    /\ UNCHANGED <<fs, clade_pheno, outputs, success, exit_code,
                   fastaVars, cleanVars, reconVars>>

\* one iteration of the loop whose file exists
LoadVariantRead ==
    /\ pc = "load_ncbi_metadata"
    /\ idx \in 1..Len(VARIANTS)
    /\ MetaFile(VARIANTS[idx].key) \in fs
    /\ reads' = Append(reads, MetaFile(VARIANTS[idx].key))
    /\ \E meta \in MetaTables(MaxRows) :
         IF LoadError(meta) # ""
         THEN /\ Raise(LoadError(meta))
              /\ UNCHANGED ret_meta
         ELSE /\ all_data' = (VARIANTS[idx].key :> ParseDates(meta)) @@ all_data
              /\ summary_list' =
                    AppendSummary(summary_list,
                                  SummaryRow(VARIANTS[idx].name, ParseDates(meta)))
              /\ console' =
                    Append(console,
                           [msg     |-> "OK",
                            variant |-> VARIANTS[idx].name,
                            n_seqs  |-> FmtThousands(NSeqs(ParseDates(meta))),
                            period  |-> SummaryRow(VARIANTS[idx].name,
                                                   ParseDates(meta)).Period])
              /\ idx' = idx + 1
              /\ pc' = pc
              /\ UNCHANGED ret_meta
    /\ UNCHANGED <<fs, clade_pheno, outputs, success, exit_code,
                   fastaVars, cleanVars, reconVars>>

\* after the loop: summary_df, the printed total, return all_data, summary_df
LoadReturn ==
    /\ pc = "load_ncbi_metadata"
    /\ idx = Len(VARIANTS) + 1
    /\ console' = Append(console, [msg   |-> "TOTAL",
                                   total |-> FmtThousands(SequencesSum(summary_list))])
    /\ ret_meta' = <<Some(all_data), Some(summary_list)>>
    /\ all_data' = <<>>
    /\ summary_list' = <<>>
    /\ idx' = 0
    /\ pc' = "main_step1"
    /\ UNCHANGED <<fs, clade_pheno, outputs, success, exit_code, reads,
                   fastaVars, cleanVars, reconVars>>

\* main: "if all_data is None"
MainStep1 ==
    /\ pc = "main_step1"
    /\ IF ret_meta[1] = None
       THEN /\ console' = Append(console,
                                 [msg |-> "Error loading NCBI metadata. Aborting."])
            /\ success' = Some(FALSE)
            /\ pc' = "return"
       ELSE /\ console' = Append(console, [msg |-> "LOADING PHENOTYPE DATA"])
            /\ success' = success
            /\ pc' = "load_phenotypes"
    /\ UNCHANGED <<fs, idx, all_data, summary_list, ret_meta, clade_pheno,
                   outputs, exit_code, reads, fastaVars, cleanVars, reconVars>>

(***************************************************************************)
(* exploratory_analysis.py : load_phenotypes                               *)
(***************************************************************************)
\* Series.dropna() / Series.notna()
DropNa(col) == SelectSeq(col, LAMBDA c : c # NaN)

NumValues(col) == [k \in 1..Len(DropNa(col)) |-> DropNa(col)[k][1]]

\* min() / max() of a numeric column: NaN when no value is left
NumMin(col) ==
    IF DropNa(col) = <<>> THEN NaN
    ELSE LET S == {NumValues(col)[k] : k \in 1..Len(NumValues(col))}
         IN  << CHOOSE v \in S : \A w \in S : v <= w >>

NumMax(col) ==
    IF DropNa(col) = <<>> THEN NaN
    ELSE LET S == {NumValues(col)[k] : k \in 1..Len(NumValues(col))}
         IN  << CHOOSE v \in S : \A w \in S : w <= v >>

\* mean(): the quotient sum / count as the pair <<sum, count>>, NaN when no
\* value is left
NumMean(col) ==
    IF DropNa(col) = <<>> THEN NaN
    ELSE << SumSeq(NumValues(col)), Len(DropNa(col)) >>

\* except FileNotFoundError: return None
LoadPhenotypesNotFound ==
    /\ pc = "load_phenotypes"
    /\ PhenoFile \notin fs
    /\ reads' = Append(reads, PhenoFile)
    /\ console' = Append(console, [msg |-> "FILE NOT FOUND", path |-> PhenoFile])
    /\ clade_pheno' = None
    /\ pc' = "main_step2"
    /\ UNCHANGED <<fs, idx, all_data, summary_list, ret_meta, outputs, success,
                   exit_code, fastaVars, cleanVars, reconVars>>

LoadPhenotypesRead ==
    /\ pc = "load_phenotypes"
    /\ PhenoFile \in fs
    /\ reads' = Append(reads, PhenoFile)
    /\ \E t \in PhenoTables(MaxPhenoRows) :
         IF TargetCol \notin t.cols
         THEN \* clade_pheno[target_col] raises KeyError after two prints
              /\ pc' = "raised"
              /\ console' = console \o
                    << [msg |-> "Clade phenotypes", rows |-> Len(t.rows),
                        features |-> Cardinality(t.cols)],
                       [msg |-> "Traceback", error |-> "KeyError"] >>
              /\ UNCHANGED clade_pheno
         ELSE /\ pc' = "main_step2"
              /\ console' = console \o
                    << [msg |-> "Clade phenotypes", rows |-> Len(t.rows),
                        features |-> Cardinality(t.cols)],
                       [msg   |-> "Target variable",
                        valid |-> Len(DropNa(t.rows)),
                        of    |-> Len(t.rows),
                        mean  |-> NumMean(t.rows),
                        min   |-> NumMin(t.rows),
                        max   |-> NumMax(t.rows)] >>
              /\ clade_pheno' = Some(t)
    /\ UNCHANGED <<fs, idx, all_data, summary_list, ret_meta, outputs, success,
                   exit_code, fastaVars, cleanVars, reconVars>>

\* variation of MainStep2: the missing phenotype table is reported but main
\* returns True
MainStep2_ReturnTrue ==
    /\ pc = "main_step2"
    /\ IF clade_pheno = None
       THEN /\ console' = Append(console,
                                 [msg |-> "Error loading phenotype data. Aborting."])
            /\ success' = Some(TRUE)
            /\ pc' = "return"
       ELSE /\ console' = Append(console, [msg |-> "GENERATING VISUALIZATIONS"])
            /\ success' = success
            /\ pc' = "plot_sequences_per_variant"
    /\ UNCHANGED <<fs, idx, all_data, summary_list, ret_meta, clade_pheno,
                   outputs, exit_code, reads, fastaVars, cleanVars, reconVars>>

\* main: "if clade_pheno is None"
MainStep2 ==
    /\ pc = "main_step2"
    /\ IF clade_pheno = None
       THEN /\ console' = Append(console,
                                 [msg |-> "Error loading phenotype data. Aborting."])
            /\ success' = Some(FALSE)
            /\ pc' = "return"
       ELSE /\ console' = Append(console, [msg |-> "GENERATING VISUALIZATIONS"])
            /\ success' = success
            /\ pc' = "plot_sequences_per_variant"
    /\ UNCHANGED <<fs, idx, all_data, summary_list, ret_meta, clade_pheno,
                   outputs, exit_code, reads, fastaVars, cleanVars, reconVars>>

(***************************************************************************)
(* exploratory_analysis.py : the three figures                             *)
(***************************************************************************)
PlotSequencesPerVariant ==
    /\ pc = "plot_sequences_per_variant"
    /\ LET summary_df == ret_meta[2].val
       IN  outputs' = Append(outputs,
              [file  |-> "01_sequences_per_variant.png",
               bars  |-> [k \in 1..Len(summary_df) |->
                            << summary_df[k].Variant,
                               FmtThousands(summary_df[k].Sequences) >>],
               total |-> FmtThousands(SequencesSum(summary_df))])
    /\ console' = Append(console, [msg  |-> "Saved",
                                   file |-> "01_sequences_per_variant.png"])
    /\ pc' = "plot_variant_timeline"
    /\ UNCHANGED <<fs, idx, all_data, summary_list, ret_meta, clade_pheno,
                   success, exit_code, reads, fastaVars, cleanVars, reconVars>>

\* the bars of the timeline: one for each variant that has a date, stacked
\* from y = 0 in the order of VARIANTS
RECURSIVE TimelineBars(_, _, _)
TimelineBars(data, k, y_pos) ==
    IF k > Len(VARIANTS) THEN <<>>
    ELSE LET dates == DatesOf(data[VARIANTS[k].key])
         IN  IF NotNaT(dates) # {}
             THEN << [y     |-> y_pos,
                      name  |-> VARIANTS[k].name,
                      left  |-> DateMin(dates),
                      right |-> DateMax(dates)] >>
                  \o TimelineBars(data, k + 1, y_pos + 1)
             ELSE TimelineBars(data, k + 1, y_pos)

PlotVariantTimeline ==
    /\ pc = "plot_variant_timeline"
    /\ outputs' = Append(outputs,
          [file |-> "02_variant_timeline.png",
           bars |-> TimelineBars(ret_meta[1].val, 1, 0)])
    /\ console' = Append(console, [msg  |-> "Saved",
                                   file |-> "02_variant_timeline.png"])
    /\ pc' = "plot_fitness_distribution"
    /\ UNCHANGED <<fs, idx, all_data, summary_list, ret_meta, clade_pheno,
                   success, exit_code, reads, fastaVars, cleanVars, reconVars>>

PlotFitnessDistribution ==
    /\ pc = "plot_fitness_distribution"
    /\ LET fitness == clade_pheno.val.rows
       IN  outputs' = Append(outputs,
              [file   |-> "03_fitness_distribution.png",
               values |-> NumValues(fitness),
               n      |-> Len(DropNa(fitness)),
               mean   |-> NumMean(fitness),
               min    |-> NumMin(fitness),
               max    |-> NumMax(fitness)])
    /\ console' = Append(console, [msg  |-> "Saved",
                                   file |-> "03_fitness_distribution.png"])
    /\ pc' = "save_summary_table"
    /\ UNCHANGED <<fs, idx, all_data, summary_list, ret_meta, clade_pheno,
                   success, exit_code, reads, fastaVars, cleanVars, reconVars>>

(***************************************************************************)
(* exploratory_analysis.py : save_summary_table                            *)
(***************************************************************************)
\* the literal of "summary_df['Phenotypes'] = 3913"
PhenotypesLiteral == 3913

\* summary_df['Phenotypes'] = 3913; summary_df['Target'] = 'clade growth'
\* (the clade_pheno argument is not read)
AddPhenotypeInfo(summary_df, pheno) ==
    [k \in 1..Len(summary_df) |->
        [ Variant    |-> summary_df[k].Variant,
          Sequences  |-> summary_df[k].Sequences,
          Period     |-> summary_df[k].Period,
          Countries  |-> summary_df[k].Countries,
          Phenotypes |-> PhenotypesLiteral,
          Target     |-> "clade growth" ]]

\* summary_df.to_csv(..., index=False): the header and one line per row
ToCsv(summary_df) ==
    [ header |-> <<"Variant", "Sequences", "Period", "Countries",
                   "Phenotypes", "Target">>,
      rows   |-> [k \in 1..Len(summary_df) |->
                    << summary_df[k].Variant, summary_df[k].Sequences,
                       summary_df[k].Period, summary_df[k].Countries,
                       summary_df[k].Phenotypes, summary_df[k].Target >>] ]

\* variation of TableData: the total row is left out
TableData_NoTotalRow(summary_df) ==
    << <<"Variant", "Sequences", "Period", "Countries",
         "Phenotypes Available">> >>
    \o [k \in 1..Len(summary_df) |->
          << summary_df[k].Variant, FmtThousands(summary_df[k].Sequences),
             summary_df[k].Period, summary_df[k].Countries, "3,913 clades" >>]

\* table_data of the table image: header, one line per row, the total row
TableData(summary_df) ==
    << <<"Variant", "Sequences", "Period", "Countries",
         "Phenotypes Available">> >>
    \o [k \in 1..Len(summary_df) |->
          << summary_df[k].Variant, FmtThousands(summary_df[k].Sequences),
             summary_df[k].Period, summary_df[k].Countries, "3,913 clades" >>]
    \o << <<"TOTAL", FmtThousands(SequencesSum(summary_df)), "2020-2023",
            "-", "3,913 clades">> >>

SaveSummaryTable ==
    /\ pc = "save_summary_table"
    /\ LET summary_df == AddPhenotypeInfo(ret_meta[2].val, clade_pheno.val)
       IN  /\ ret_meta' = <<ret_meta[1], Some(summary_df)>>
           /\ outputs' = outputs \o
                 << [file |-> "data_summary.csv", csv |-> ToCsv(summary_df)],
                    [file |-> "04_data_summary_table.png",
                     table_data |-> TableData(summary_df)] >>
    /\ console' = console \o
          << [msg |-> "Saved", file |-> "data_summary.csv"],
             [msg |-> "Saved", file |-> "04_data_summary_table.png"] >>
    /\ pc' = "main_step4"
    /\ UNCHANGED <<fs, idx, all_data, summary_list, clade_pheno, success,
                   exit_code, reads, fastaVars, cleanVars, reconVars>>

(***************************************************************************)
(* exploratory_analysis.py : main, step 4 and the exit                     *)
(***************************************************************************)
MainStep4 ==
    /\ pc = "main_step4"
    /\ console' = console \o
          << [msg |-> "ANALYSIS SUMMARY", table |-> ret_meta[2].val],
             [msg   |-> "Total sequences",
              total |-> FmtThousands(SequencesSum(ret_meta[2].val))],
             [msg   |-> "Total clades with phenotypes",
              total |-> FmtThousands(Len(clade_pheno.val.rows))],
             [msg   |-> "Clades with fitness labels",
              total |-> Len(DropNa(clade_pheno.val.rows))] >>
    /\ success' = Some(TRUE)
    /\ pc' = "return"
    /\ UNCHANGED <<fs, idx, all_data, summary_list, ret_meta, clade_pheno,
                   outputs, exit_code, reads, fastaVars, cleanVars, reconVars>>

\* variation of Exit: exit(0) whatever main returned
Exit_AlwaysZero ==
    /\ pc = "return"
    /\ exit_code' = 0
    /\ pc' = "done"
    /\ UNCHANGED <<fs, idx, all_data, summary_list, ret_meta, clade_pheno,
                   console, outputs, success, reads, fastaVars, cleanVars, reconVars>>

\* exit(0 if success else 1)
Exit ==
    /\ pc = "return"
    /\ exit_code' = IF success.val THEN 0 ELSE 1
    /\ pc' = "done"
    /\ UNCHANGED <<fs, idx, all_data, summary_list, ret_meta, clade_pheno,
                   console, outputs, success, reads, fastaVars, cleanVars, reconVars>>

\* an uncaught exception ends the interpreter with status 1
ExitRaised ==
    /\ pc = "raised"
    /\ exit_code' = 1
    /\ pc' = "done"
    /\ UNCHANGED <<fs, idx, all_data, summary_list, ret_meta, clade_pheno,
                   console, outputs, success, reads, fastaVars, cleanVars, reconVars>>

(***************************************************************************)
(* Specification of exploratory_analysis.py                                *)
(***************************************************************************)
ReconIdle == /\ rpc = "idle" /\ rdfs = <<>> /\ rfasta = <<>> /\ ridx = 0
             /\ rout = <<>>

FastaIdle == /\ fpc = "idle" /\ lines = <<>> /\ cap = None /\ pos = 0
             /\ accs = {}

CleanIdle == /\ cpc = "idle" /\ tsv = None /\ csv = None

Init ==
    /\ pc = "main"
    /\ fs \in SUBSET RequiredFiles
    /\ idx = 0
    /\ all_data = <<>>
    /\ summary_list = <<>>
    /\ ret_meta = <<None, None>>
    /\ clade_pheno = None
    /\ console = <<>>
    /\ outputs = <<>>
    /\ success = None
    /\ exit_code = NoExit
    /\ reads = <<>>
    /\ FastaIdle
    /\ CleanIdle
    /\ ReconIdle

Next ==
    \/ MainStart
    \/ LoadVariantNotFound
    \/ LoadVariantRead
    \/ LoadReturn
    \/ MainStep1
    \/ LoadPhenotypesNotFound
    \/ LoadPhenotypesRead
    \/ MainStep2
    \/ PlotSequencesPerVariant
    \/ PlotVariantTimeline
    \/ PlotFitnessDistribution
    \/ SaveSummaryTable
    \/ MainStep4
    \/ Exit
    \/ ExitRaised

Spec == Init /\ [][Next]_vars

(***************************************************************************)
(* Text: a str is the sequence of its characters                           *)
(***************************************************************************)
IsSpace(c) == c \in {" ", "\t", "\n"}

RECURSIVE LStrip(_)
LStrip(s) == IF s # <<>> /\ IsSpace(Head(s)) THEN LStrip(Tail(s)) ELSE s

RECURSIVE RStrip(_)
RStrip(s) ==
    IF s # <<>> /\ IsSpace(s[Len(s)]) THEN RStrip(SubSeq(s, 1, Len(s) - 1)) ELSE s

\* str.strip()
Strip(s) == RStrip(LStrip(s))

\* the longest prefix of s without whitespace
RECURSIVE Word(_)
Word(s) == IF s = <<>> \/ IsSpace(Head(s)) THEN <<>>
           ELSE <<Head(s)>> \o Word(Tail(s))

\* str.split(): the whitespace-delimited tokens, none for a blank string
RECURSIVE Split(_)
Split(s) ==
    IF LStrip(s) = <<>> THEN <<>>
    ELSE << Word(LStrip(s)) >>
         \o Split(SubSeq(LStrip(s), Len(Word(LStrip(s))) + 1, Len(LStrip(s))))

\* str.startswith(">")
StartsWithMarker(line) == line # <<>> /\ Head(line) = ">"

(***************************************************************************)
(* check_data.py : load_fasta_accessions                                   *)
(***************************************************************************)
\* lines of the archive
MaxLines == 3
\* largest sample cap n, besides n=None
MaxCap == 3

\* the lines an archive is made of:
\*   >A1 d\n      header with a description
\*   >B2\n        header, identifier only
\*   > A1\n       blank between marker and identifier
\*   >C3\td       tab before the description, last line without newline
\*   ACGT\n       sequence data
\*    >C3\n       marker not in first column: no header
\*   \n           empty line
\*   >\n          header without identifier
SampleLines ==
    { <<">", "A", "1", " ", "d", "\n">>,
      <<">", "B", "2", "\n">>,
      <<">", " ", "A", "1", "\n">>,
      <<">", "C", "3", "\t", "d">>,
      <<"A", "C", "G", "T", "\n">>,
      <<" ", ">", "C", "3", "\n">>,
      <<"\n">>,
      <<">", "\n">> }
\* "for line in fh": the lines of a file; every line ends with its line
\* break, except possibly the last one
EndsWithNewline(line) == line # <<>> /\ line[Len(line)] = "\n"

Archives ==
    { a \in SeqsUpTo(SampleLines, MaxLines) :
        \A i \in 1..(Len(a) - 1) : EndsWithNewline(a[i]) }

Caps == {None} \cup {Some(n) : n \in 0..MaxCap}

\* header = line[1:].strip()
HeaderOf(line) == Strip(Tail(line))

\* header.split()[0] raises IndexError when the header has no token
HasFirstToken(line) == Split(HeaderOf(line)) # <<>>

FirstToken(line) == Split(HeaderOf(line))[1]

\* "if n is not None and len(accs) >= n": the test that ends the scan
CapReached(n, set) == n # None /\ Cardinality(set) >= n.val

\* accs = set(); with open(fasta_path) as fh
LoadFastaAccessions ==
    /\ fpc = "call"
    /\ fpc' = "scan"
    /\ accs' = {}
    /\ pos' = 0
    /\ UNCHANGED <<lines, cap, eaVars, cleanVars, reconVars>>

\* one iteration of "for line in fh"
ScanLine ==
    /\ fpc = "scan"
    /\ pos < Len(lines)
    /\ pos' = pos + 1
    /\ LET line == lines[pos + 1]
       IN  IF StartsWithMarker(line) /\ ~HasFirstToken(line)
           THEN /\ fpc' = "raised"
                /\ accs' = accs
           ELSE /\ accs' = IF StartsWithMarker(line)
                           THEN accs \cup {FirstToken(line)}
                           ELSE accs
                /\ fpc' = IF CapReached(cap, accs') THEN "returned" ELSE "scan"
    /\ UNCHANGED <<lines, cap, eaVars, cleanVars, reconVars>>

\* the file is exhausted: return accs
ScanEnd ==
    /\ fpc = "scan"
    /\ pos = Len(lines)
    /\ fpc' = "returned"
    /\ UNCHANGED <<lines, cap, pos, accs, eaVars, cleanVars, reconVars>>

EaIdle ==
    /\ pc = "idle"
    /\ fs = {}
    /\ idx = 0
    /\ all_data = <<>>
    /\ summary_list = <<>>
    /\ ret_meta = <<None, None>>
    /\ clade_pheno = None
    /\ console = <<>>
    /\ outputs = <<>>
    /\ success = None
    /\ exit_code = NoExit
    /\ reads = <<>>

InitFasta ==
    /\ fpc = "call"
    /\ lines \in Archives
    /\ cap \in Caps
    /\ pos = 0
    /\ accs = {}
    /\ EaIdle
    /\ CleanIdle
    /\ ReconIdle

NextFasta == LoadFastaAccessions \/ ScanLine \/ ScanEnd

SpecFasta == InitFasta /\ [][NextFasta]_vars

(***************************************************************************)
(* clean_data.py : clean_tsv_to_csv                                        *)
(***************************************************************************)
\* rows of the table given to clean_tsv_to_csv
MaxCleanRows == 3

UpperCase == <<"A", "B", "C", "D", "E", "F", "G", "H", "I", "J", "K", "L", "M", "N", "O", "P", "Q", "R", "S", "T", "U", "V", "W", "X", "Y", "Z">>
LowerCase == <<"a", "b", "c", "d", "e", "f", "g", "h", "i", "j", "k", "l", "m", "n", "o", "p", "q", "r", "s", "t", "u", "v", "w", "x", "y", "z">>

\* str.lower() on one character
LowerChar(c) ==
    IF \E k \in 1..Len(UpperCase) : UpperCase[k] = c
    THEN LowerCase[CHOOSE k \in 1..Len(UpperCase) : UpperCase[k] = c]
    ELSE c

\* df.columns.str.strip().str.lower().str.replace(" ", "_") on one name
NormalizeColumn(name) ==
    [k \in 1..Len(Strip(name)) |->
        IF LowerChar(Strip(name)[k]) = " " THEN "_"
        ELSE LowerChar(Strip(name)[k])]

\* the name dropna looks up
CleanDateCol == <<"i", "s", "o", "l", "a", "t", "e", "_", "c", "o", "l", "l", "e", "c", "t", "i", "o", "n", "_", "d", "a", "t", "e">>

\* column names of the exports
AccessionHeader == <<"A", "c", "c", "e", "s", "s", "i", "o", "n">>
DateHeaders ==
    { <<"I", "s", "o", "l", "a", "t", "e", " ", "C", "o", "l", "l", "e", "c", "t", "i", "o", "n", " ", "d", "a", "t", "e">>,
      <<" ", "i", "s", "o", "l", "a", "t", "e", "_", "c", "o", "l", "l", "e", "c", "t", "i", "o", "n", "_", "d", "a", "t", "e", " ">>,
      <<"C", "o", "l", "l", "e", "c", "t", "i", "o", "n", " ", "D", "a", "t", "e">> }

\* texts pandas.read_csv reads as a missing value (a subset of its defaults)
NaTexts == {"", "NA", "NaN", "N/A", "null", "nan", "NULL", "None", "n/a", "#N/A"}

\* read_csv on one cell: the text, or NaN
ReadCell(text) == IF text \in NaTexts THEN NaN ELSE <<text>>

\* to_csv on one cell: NaN is written as the empty field
WriteCell(cell) == IF cell = NaN THEN "" ELSE cell[1]

\* cells of the two columns of a line of the export
AccessionTexts == {"PQ169688.1", ""}
DateTexts      == {"", "NA", "2021-05-01", "unknown"}

TsvLines == {<<a, d>> : a \in AccessionTexts, d \in DateTexts}

TsvFiles == [ header : {<<AccessionHeader, h>> : h \in DateHeaders},
              lines  : SeqsUpTo(TsvLines, MaxCleanRows) ]

\* pd.read_csv(tsv_path, sep="\t")
ReadTsv(file) ==
    [ columns |-> file.header,
      rows    |-> [k \in 1..Len(file.lines) |->
                     [c \in 1..Len(file.header) |-> ReadCell(file.lines[k][c])]] ]

\* df.columns = df.columns.str.strip().str.lower().str.replace(" ", "_")
RenameColumns(df) ==
    [df EXCEPT !.columns = [c \in 1..Len(df.columns) |->
                               NormalizeColumn(df.columns[c])]]

HasColumn(df, name) == \E c \in 1..Len(df.columns) : df.columns[c] = name

ColumnIndex(df, name) == CHOOSE c \in 1..Len(df.columns) : df.columns[c] = name

\* variation of DropNaSubset: dropna() without subset, a row goes when any
\* of its cells is NaN
DropNaSubset_AnyColumn(df, name) ==
    [df EXCEPT !.rows =
        SelectSeq(df.rows, LAMBDA r : \A c \in 1..Len(r) : r[c] # NaN)]

\* df.dropna(subset=[name]): the rows whose cell in that column is not NaN
DropNaSubset(df, name) ==
    [df EXCEPT !.rows =
        SelectSeq(df.rows, LAMBDA r : r[ColumnIndex(df, name)] # NaN)]

\* df.to_csv(csv_path, index=False)
ToCsvFile(df) ==
    [ header |-> df.columns,
      lines  |-> [k \in 1..Len(df.rows) |->
                    [c \in 1..Len(df.columns) |-> WriteCell(df.rows[k][c])]] ]

\* the whole function; a table without the date column raises KeyError in
\* dropna and nothing is written
CleanTsvToCsv ==
    /\ cpc = "call"
    /\ IF HasColumn(RenameColumns(ReadTsv(tsv.val)), CleanDateCol)
       THEN /\ csv' = Some(ToCsvFile(DropNaSubset(RenameColumns(ReadTsv(tsv.val)),
                                                  CleanDateCol)))
            /\ cpc' = "returned"
       ELSE /\ csv' = csv
            /\ cpc' = "raised"
    /\ UNCHANGED <<tsv, eaVars, fastaVars, reconVars>>

InitClean ==
    /\ cpc = "call"
    /\ tsv \in {Some(f) : f \in TsvFiles}
    /\ csv = None
    /\ EaIdle
    /\ FastaIdle
    /\ ReconIdle

NextClean == CleanTsvToCsv

SpecClean == InitClean /\ [][NextClean]_vars

(***************************************************************************)
(* Properties of exploratory_analysis.py (specification Spec)              *)
(***************************************************************************)
HasMsg(m) == \E k \in 1..Len(console) : console[k].msg = m

Written(f) == \E k \in 1..Len(outputs) : outputs[k].file = f

OutputOf(f) == outputs[CHOOSE k \in 1..Len(outputs) : outputs[k].file = f]

\* a "FILE NOT FOUND" line that names the path
ReportedMissing(path) ==
    \E k \in 1..Len(console) :
        console[k].msg = "FILE NOT FOUND" /\ console[k].path = path

\* a "FILE NOT FOUND" line of load_ncbi_metadata, which names a variant
ReportedMissingVariant ==
    \E k \in 1..Len(console) :
        console[k].msg = "FILE NOT FOUND" /\ "variant" \in DOMAIN console[k]

MetaFiles == {MetaFile(k) : k \in VariantKeys}

AllOutputs == { "01_sequences_per_variant.png", "02_variant_timeline.png",
                "03_fitness_distribution.png", "data_summary.csv",
                "04_data_summary_table.png" }

\* the run got its metadata (the loader returned tables) and the phenotype
\* file is absent
PhenotypeFileAbsent == ret_meta[1] # None /\ PhenoFile \notin fs

\* C1 as stated: with every metadata file loaded and clade_phenotypes.csv
\* absent, the finished run has produced data_summary.csv and has reported a
\* phenotype-file failure, not a metadata failure.
C1_BaseReportProduced ==
    (pc = "done" /\ PhenotypeFileAbsent) =>
        /\ Written("data_summary.csv")
        /\ ReportedMissing(PhenoFile)
        /\ ~ReportedMissingVariant

\* C1 amended: with every metadata file loaded and clade_phenotypes.csv
\* absent the whole run is aborted: nothing is written under results/figures
\* at any point, main returns False and the process exits with 1; the failure
\* is reported as a phenotype-file failure (its path, "Error loading phenotype
\* data"), never as the missing-metadata failure.
C1_PhenotypeAbortsRun ==
    PhenotypeFileAbsent =>
        /\ outputs = <<>>
        /\ ~ReportedMissingVariant
        /\ ~HasMsg("Error loading NCBI metadata. Aborting.")
        /\ pc \in {"return", "done"} =>
              /\ success = Some(FALSE)
              /\ ReportedMissing(PhenoFile)
              /\ HasMsg("Error loading phenotype data. Aborting.")
        /\ pc = "done" => exit_code = 1

C1_Witness ==
    /\ pc = "done"
    /\ PhenotypeFileAbsent
    /\ MetaFiles \subseteq fs
    /\ Len(ret_meta[2].val) = Len(VARIANTS)

\* the reads of load_ncbi_metadata
MetaReads == SelectSeq(reads, LAMBDA f : f \in MetaFiles)

\* C2: load_ncbi_metadata reads the variants in the order of VARIANTS; the
\* read of a variant whose file is absent is the last read of the run, every
\* variant before it had its file, the variant and its path are on the
\* console, and the loader has returned (None, None); whenever a metadata
\* file is absent no table, summary or total is ever returned.
C2_FailFast ==
    /\ \A k \in 1..Len(MetaReads) :
          /\ k <= Len(VARIANTS)
          /\ MetaReads[k] = MetaFile(VARIANTS[k].key)
    /\ \A k \in 1..Len(reads) :
          (reads[k] \in MetaFiles /\ reads[k] \notin fs) =>
              /\ k = Len(reads)
              /\ \A j \in 1..(k - 1) : reads[j] \in fs
              /\ \E m \in 1..Len(console) :
                    /\ console[m].msg = "FILE NOT FOUND"
                    /\ console[m].path = reads[k]
                    /\ console[m].variant = VARIANTS[k].name
              /\ ret_meta = <<None, None>>
              /\ ~HasMsg("TOTAL")
              /\ pc \in {"main_step1", "return", "done"}
    /\ ~(MetaFiles \subseteq fs) =>
          /\ ret_meta = <<None, None>>
          /\ ~HasMsg("TOTAL")
          /\ outputs = <<>>

\* the third variant is the first one without a file, and a later one has
\* none either
C2_Witness ==
    /\ pc = "done"
    /\ Len(reads) = 3
    /\ reads[3] = MetaFile("delta")
    /\ MetaFile("delta") \notin fs
    /\ MetaFile("ba2") \notin fs
    /\ ret_meta = <<None, None>>

\* C5 as stated: no table makes load_ncbi_metadata fail on its dates; a table
\* whose dates are all unparseable or missing, or one without rows, is loaded
\* like any other (the run never ends in the ValueError of formatting NaT).
C5_DatesNeverFatal ==
    ~ \E k \in 1..Len(console) :
          console[k].msg = "Traceback" /\ console[k].error = "ValueError"

\* C6 as stated: data_summary.csv holds one row per variant plus a total row
\* whose total is the one printed on the console.
C6_CsvHasTotalRow ==
    Written("data_summary.csv") =>
        LET rows == OutputOf("data_summary.csv").csv.rows
        IN  /\ Len(rows) = Len(VARIANTS) + 1
            /\ rows[Len(rows)][1] = "TOTAL"

\* the total of the "TOTAL: ... sequences" line of load_ncbi_metadata
ConsoleTotal ==
    console[CHOOSE k \in 1..Len(console) : console[k].msg = "TOTAL"].total

\* C6 amended: the table written by save_summary_table into
\* 04_data_summary_table.png holds the header, one row per variant in the
\* order of VARIANTS and a closing TOTAL row, and the total of that row is
\* the total printed by load_ncbi_metadata and by main; data_summary.csv
\* holds one row per variant and no total row.
C6_TableImageAgreesWithConsole ==
    /\ Written("04_data_summary_table.png") =>
          LET t == OutputOf("04_data_summary_table.png").table_data
          IN  /\ Len(t) = Len(VARIANTS) + 2
              /\ \A k \in 1..Len(VARIANTS) : t[k + 1][1] = VARIANTS[k].name
              /\ t[Len(t)][1] = "TOTAL"
              /\ t[Len(t)][2] = ConsoleTotal
              /\ \A k \in 1..Len(console) :
                    console[k].msg = "Total sequences" =>
                        console[k].total = t[Len(t)][2]
    /\ Written("data_summary.csv") =>
          LET rows == OutputOf("data_summary.csv").csv.rows
          IN  /\ Len(rows) = Len(VARIANTS)
              /\ \A k \in 1..Len(rows) : rows[k][1] = VARIANTS[k].name

C6_Witness ==
    /\ pc = "done"
    /\ exit_code = 0
    /\ clade_pheno.val.rows # <<>>
    /\ Written("04_data_summary_table.png")
    /\ Written("data_summary.csv")
    /\ HasMsg("Total sequences")

\* C7 as stated: the Phenotypes value of every row of data_summary.csv is
\* the number of rows of the phenotype table given to save_summary_table.
C7_PhenotypeCountIsRowCount ==
    Written("data_summary.csv") =>
        LET rows == OutputOf("data_summary.csv").csv.rows
        IN  \A k \in 1..Len(rows) : rows[k][5] = Len(clade_pheno.val.rows)

\* the keys of the first n variants
FirstKeys(n) == {VARIANTS[k].key : k \in 1..n}

\* C8: while load_ncbi_metadata runs, summary_list has one row for each
\* variant loaded so far, in the order of VARIANTS, each with the row count
\* of that variant's table; a summary is returned only with one row for every
\* variant of VARIANTS in that order, and the total printed with it is the
\* sum of the row counts of the tables returned.
C8_TotalIsSumOfRowCounts ==
    /\ pc = "load_ncbi_metadata" =>
          /\ Len(summary_list) = idx - 1
          /\ DOMAIN all_data = FirstKeys(idx - 1)
          /\ \A k \in 1..Len(summary_list) :
                /\ summary_list[k].Variant = VARIANTS[k].name
                /\ summary_list[k].Sequences = Len(all_data[VARIANTS[k].key].rows)
    /\ ret_meta[2] # None =>
          LET df   == ret_meta[2].val
              data == ret_meta[1].val
          IN  /\ Len(df) = Len(VARIANTS)
              /\ DOMAIN data = VariantKeys
              /\ \A k \in 1..Len(VARIANTS) :
                    /\ df[k].Variant = VARIANTS[k].name
                    /\ df[k].Sequences = Len(data[VARIANTS[k].key].rows)
              /\ ConsoleTotal = FmtThousands(RowsOf(data, VariantKeys))

C8_Witness ==
    /\ pc = "main_step1"
    /\ ret_meta[2] # None
    /\ HasMsg("TOTAL")
    /\ LET df   == ret_meta[2].val
           data == ret_meta[1].val
       IN  /\ RowsOf(data, VariantKeys) > Len(df)
           /\ \E j, k \in 1..Len(df) : df[j].Sequences # df[k].Sequences
           /\ \E k \in 1..Len(df) : df[k].Sequences # df[k].Countries
           /\ \E k \in VariantKeys :
                 \E m \in 1..Len(data[k].rows) : data[k].rows[m].date = NaT

\* a read found its file missing
ReadFoundMissing == reads # <<>> /\ reads[Len(reads)] \notin fs

\* C9 as stated: the finished process has status 0 exactly when every
\* required file was found and the five outputs were produced; when a
\* required file is missing the status is not 0, a message names a missing
\* file and nothing was written.
C9_ExitStatus ==
    pc = "done" =>
        /\ exit_code = 0 <=>
              (RequiredFiles \subseteq fs /\ \A f \in AllOutputs : Written(f))
        /\ ~(RequiredFiles \subseteq fs) =>
              /\ exit_code # 0
              /\ \E f \in RequiredFiles \ fs : ReportedMissing(f)
              /\ outputs = <<>>

\* C9 amended: the finished process has status 0 exactly when every required
\* file was found and the five outputs were produced; in every run with a
\* required file missing nothing is ever written and the status is 1; and a
\* run whose read finds a required file missing reads nothing after it, names
\* that file on the console and is aborted with status 1.  (A run that raises
\* on an earlier table exits with 1 without naming a missing file.)
C9_ExitStatusAmended ==
    /\ pc = "done" =>
          exit_code = 0 <=>
              (RequiredFiles \subseteq fs /\ \A f \in AllOutputs : Written(f))
    /\ ~(RequiredFiles \subseteq fs) =>
          /\ outputs = <<>>
          /\ pc = "done" => exit_code = 1
    /\ \A k \in 1..Len(reads) :
          reads[k] \notin fs =>
              /\ k = Len(reads)
              /\ ReportedMissing(reads[k])
              /\ pc \in {"return", "done"} => success = Some(FALSE)
              /\ pc = "done" => exit_code = 1

C9_Witness ==
    /\ pc = "done"
    /\ exit_code = 1
    /\ ReadFoundMissing
    /\ reads[Len(reads)] = PhenoFile
    /\ Len(reads) = Len(VARIANTS) + 1

(***************************************************************************)
(* Properties of load_fasta_accessions (specification SpecFasta)           *)
(***************************************************************************)
\* C3 as stated: with a sample cap N >= 0 the set being built never has more
\* than N elements, at any step of the scan and when it is returned.
C3_AtMostN == cap # None => Cardinality(accs) <= cap.val

\* the header lines among the first n lines of the archive
HeadersIn(n) == {k \in 1..n : StartsWithMarker(lines[k])}

\* C10 as stated: for every archive and cap the function returns (it never
\* fails); the set returned holds exactly the first tokens of the header
\* lines among the lines scanned; and with a cap N >= 1 a line is read only
\* while fewer than N distinct identifiers were collected before it.
C10_ReturnsHeaderIdentifiers ==
    /\ fpc # "raised"
    /\ fpc = "returned" =>
          accs = {FirstToken(lines[k]) : k \in HeadersIn(pos)}
    /\ (cap # None /\ pos >= 1) =>
          (cap.val >= 1 =>
              Cardinality({FirstToken(lines[k]) : k \in HeadersIn(pos - 1)})
                  < cap.val)

(***************************************************************************)
(* Properties of clean_tsv_to_csv (specification SpecClean)                *)
(***************************************************************************)
\* the position of the column that is renamed to isolate_collection_date
DateField ==
    CHOOSE c \in 1..Len(tsv.val.header) :
        NormalizeColumn(tsv.val.header[c]) = CleanDateCol

\* two lines hold the same row: cell by cell the same value, or both missing
SameRow(a, b) ==
    /\ Len(a) = Len(b)
    /\ \A c \in 1..Len(a) : ReadCell(a[c]) = ReadCell(b[c])

\* C4: the lines written by clean_tsv_to_csv are the input rows with a
\* non-missing isolate_collection_date, all of them, in input order: no
\* written line has a missing date, as many lines are written as input rows
\* have a date, and the written lines are those rows taken in increasing
\* input position.
C4_RowsWithDateKept ==
    cpc = "returned" =>
        LET in   == tsv.val.lines
            out  == csv.val.lines
            kept == {i \in 1..Len(in) : in[i][DateField] \notin NaTexts}
        IN  /\ Len(out) = Cardinality(kept)
            /\ \A j \in 1..Len(out) : out[j][DateField] \notin NaTexts
            /\ \E f \in [1..Len(out) -> kept] :
                  /\ \A j \in 1..Len(out) : SameRow(out[j], in[f[j]])
                  /\ \A i, j \in 1..Len(out) : i < j => f[i] < f[j]

\* three rows, the middle one without a date is dropped, the two others are
\* written, one of them without an accession
C4_Witness ==
    /\ cpc = "returned"
    /\ Len(tsv.val.lines) = 3
    /\ tsv.val.lines[2][DateField] = "NA"
    /\ tsv.val.lines[1] = <<"", "2021-05-01">>
    /\ tsv.val.lines[3] = <<"PQ169688.1", "unknown">>
    /\ Len(csv.val.lines) = 2

(***************************************************************************)
(* check_data.py : the reconciliation loop (lines 42-48)                   *)
(***************************************************************************)
\* rows of a clean metadata table
MaxReconRows == 2

\* the variants of the loop, in the order of its list
ReconNames == <<"Delta", "Omicron">>

\* identifiers as load_fasta_accessions returns them
SampleAccessions == { <<"A", "1">>, <<"B", "2">> }

\* cells of the accession column: an identifier, or an empty cell
AccessionCells == SampleAccessions \cup {NaN}

\* pd.read_csv of a clean file: the accession column of its records, which
\* clean_tsv_to_csv always writes
ReconTables == SeqsUpTo(AccessionCells, MaxReconRows)

\* df["accession"].iloc[0]: IndexError on a table without records, "" when
\* the value is there
SomeAccError(df) == IF df = <<>> THEN "IndexError" ELSE ""

SomeAcc(df) == df[1]

\* some_acc in fasta_accs
InFasta(some_acc, fasta_accs) == some_acc \in fasta_accs

\* one iteration of the loop that prints its two lines
ReconcileStep ==
    /\ rpc = "loop"
    /\ ridx \in 1..Len(ReconNames)
    /\ SomeAccError(rdfs[ridx]) = ""
    /\ rout' = Append(rout, [name     |-> ReconNames[ridx],
                             some_acc |-> SomeAcc(rdfs[ridx]),
                             in_fasta |-> InFasta(SomeAcc(rdfs[ridx]),
                                                  rfasta[ridx])])
    /\ ridx' = ridx + 1
    /\ UNCHANGED <<rpc, rdfs, rfasta, eaVars, fastaVars, cleanVars>>

\* one iteration of the loop whose df["accession"].iloc[0] raises: nothing
\* catches the exception, the script ends with the traceback
ReconcileRaise ==
    /\ rpc = "loop"
    /\ ridx \in 1..Len(ReconNames)
    /\ SomeAccError(rdfs[ridx]) # ""
    /\ rout' = Append(rout, [name  |-> ReconNames[ridx],
                             error |-> SomeAccError(rdfs[ridx])])
    /\ rpc' = "raised"
    /\ UNCHANGED <<rdfs, rfasta, ridx, eaVars, fastaVars, cleanVars>>

\* the list is exhausted: the script ends
ReconcileEnd ==
    /\ rpc = "loop"
    /\ ridx = Len(ReconNames) + 1
    /\ rpc' = "done"
    /\ UNCHANGED <<rdfs, rfasta, ridx, rout, eaVars, fastaVars, cleanVars>>

\* the script at line 42: both tables read, both archives scanned
InitReconcile ==
    /\ rpc = "loop"
    /\ rdfs \in [1..Len(ReconNames) -> ReconTables]
    /\ rfasta \in [1..Len(ReconNames) -> SUBSET SampleAccessions]
    /\ ridx = 1
    /\ rout = <<>>
    /\ EaIdle
    /\ FastaIdle
    /\ CleanIdle

NextReconcile == ReconcileStep \/ ReconcileRaise \/ ReconcileEnd

SpecReconcile == InitReconcile /\ [][NextReconcile]_vars

(***************************************************************************)
(* Properties of the reconciliation loop (specification SpecReconcile)     *)
(***************************************************************************)
\* the loop printed the membership result of a variant
Reconciled(k) ==
    \E m \in 1..Len(rout) :
        rout[m].name = ReconNames[k] /\ "in_fasta" \in DOMAIN rout[m]

\* the loop ended on an error of a variant
ErrorSurfaced(k) ==
    \E m \in 1..Len(rout) :
        rout[m].name = ReconNames[k] /\ "error" \in DOMAIN rout[m]

EmptyTable(k) == rdfs[k] = <<>>

\* C11 as stated: when the script has ended, every variant with an empty
\* metadata table has had its error surfaced, and every variant with a
\* non-empty table has had its membership result reported, whatever the
\* tables of the other variants are: an empty table is fatal for its own
\* reconciliation step only, and a negative result aborts nothing.
C11_EmptyTableFatalForItsStepOnly ==
    rpc \in {"done", "raised"} =>
        \A k \in 1..Len(ReconNames) :
            /\ EmptyTable(k) => ErrorSurfaced(k)
            /\ ~EmptyTable(k) => Reconciled(k)

====
